---- MODULE Spec2Model ----
(***************************************************************************)
(* A model of crawler.py: the class WebsiteScraperAlpacaFormatter, its     *)
(* link discovery, page text extraction, record generation and dataset     *)
(* writer, and the loop of process_multiple_recipes that drives them.      *)
(*                                                                         *)
(* A Python str is a sequence of one-character strings, so that `in`,      *)
(* startswith, lower, split, replace, strip and slicing are computed on    *)
(* characters as Python computes them.                                     *)
(***************************************************************************)
EXTENDS Integers, Sequences, FiniteSets, TLC

VARIABLES
    pc,               \* position of the thread of control
    base_url,         \* self.base_url
    visited_urls,     \* self.visited_urls
    url,              \* self.url
    page_url,         \* the url argument of the last find_recipe_links call
    page,             \* hrefs of the <a href> elements of the page last fetched by discovery
    fetch_ok,         \* whether that fetch returned a 2xx response
    max_links,        \* max_links / max_recipes of the current call
    recipe_links,     \* the collection find_recipe_links returned
    pending,          \* links the for loop of process_multiple_recipes has not reached
    processed,        \* links whose iteration ran to its end, in order
    steps,            \* the steps taken for the current link, in order
    runs,             \* calls of process_multiple_recipes made on this object
    num_pairs,        \* num_pairs / num_pairs_per_recipe of the current call
    text_content,     \* the text scrape_website returned (None when it failed)
    prompt,           \* the part of text_content embedded in the last request sent
    replies,          \* outcome of each generation request of the current call, in order
    instruction_pairs,\* the list generate_instruction_pairs builds
    file,             \* content of the dataset file
    existing_count,   \* existing_count of the last save_to_jsonl
    reported          \* the total the last save_to_jsonl printed

vars == <<pc, base_url, visited_urls, url, page_url, page, fetch_ok, max_links, recipe_links,
          pending, processed, steps, runs, num_pairs, text_content, prompt, replies,
          instruction_pairs, file, existing_count, reported>>

----------------------------------------------------------------------------
(* Bounds of the model *)

MaxAnchors == 2       \* anchors on a page given to find_recipe_links alone
MaxLinks == 2         \* largest max_links / max_recipes requested
MaxVisited == 1       \* size of the visited set given to find_recipe_links alone
MaxFrags == 4         \* fragments a generation reply is composed of
MaxExtra == 2         \* characters of an extracted text beyond the truncation limit
MaxPeriods == 8       \* distinct texts of each length
MaxFileLen == 3       \* characters of the dataset file given to save_to_jsonl alone
MaxRecords == 2       \* records given to save_to_jsonl alone
MaxPairs == 2         \* largest num_pairs_per_recipe requested
MaxPageLen == 2       \* anchors on a page fetched by process_multiple_recipes
MaxRuns == 2          \* calls of process_multiple_recipes on one object

\* Python's None, and the outcome of a request that raised: values no str equals
None == <<"None">>
ServiceError == <<"ServiceError">>

Min(a, b) == IF a < b THEN a ELSE b
Max(a, b) == IF a > b THEN a ELSE b

----------------------------------------------------------------------------
(* Python str operations *)

\* s[i:] with 0 <= i
Drop(s, i) == SubSeq(s, i + 1, Len(s))

\* s[lo:hi] with 0 <= lo and 0 <= hi
Slice(s, lo, hi) == [i \in 1..Max(0, Min(hi, Len(s)) - lo) |-> s[lo + i]]

\* s.startswith(p)
StartsWith(s, p) == Len(p) <= Len(s) /\ SubSeq(s, 1, Len(p)) = p

\* p in s
Contains(s, p) == \E i \in 0..(Len(s) - Len(p)) : SubSeq(s, i + 1, i + Len(p)) = p

UpperCase == <<"A","B","C","D","E","F","G","H","I","J","K","L","M",
               "N","O","P","Q","R","S","T","U","V","W","X","Y","Z">>
LowerCase == <<"a","b","c","d","e","f","g","h","i","j","k","l","m",
               "n","o","p","q","r","s","t","u","v","w","x","y","z">>

LowerChar(c) ==
    IF \E k \in 1..26 : UpperCase[k] = c
    THEN LowerCase[CHOOSE k \in 1..26 : UpperCase[k] = c]
    ELSE c

\* s.lower()
Lower(s) == [i \in 1..Len(s) |-> LowerChar(s[i])]

\* s.split(sep): the parts between the non-overlapping occurrences of sep, left to right
RECURSIVE SplitFrom(_, _, _)
SplitFrom(s, sep, cur) ==
    IF s = <<>> THEN <<cur>>
    ELSE IF StartsWith(s, sep) THEN <<cur>> \o SplitFrom(Drop(s, Len(sep)), sep, <<>>)
    ELSE SplitFrom(Tail(s), sep, Append(cur, Head(s)))

Split(s, sep) == SplitFrom(s, sep, <<>>)

\* s.replace(old, '')
RECURSIVE Remove(_, _)
Remove(s, old) ==
    IF s = <<>> THEN <<>>
    ELSE IF StartsWith(s, old) THEN Remove(Drop(s, Len(old)), old)
    ELSE <<Head(s)>> \o Remove(Tail(s), old)

Whitespace == {" ", "\n", "\t", "\r"}

RECURSIVE LStrip(_)
LStrip(s) == IF s # <<>> /\ Head(s) \in Whitespace THEN LStrip(Tail(s)) ELSE s

RECURSIVE RStrip(_)
RStrip(s) ==
    IF s # <<>> /\ s[Len(s)] \in Whitespace THEN RStrip(SubSeq(s, 1, Len(s) - 1)) ELSE s

\* s.strip()
Strip(s) == RStrip(LStrip(s))

RECURSIVE Concat(_)
Concat(ss) == IF ss = <<>> THEN <<>> ELSE Head(ss) \o Concat(Tail(ss))

\* every sequence over S of length at most n
SeqsUpTo(S, n) == UNION {[1..k -> S] : k \in 0..n}

Range(f) == {f[i] : i \in DOMAIN f}

----------------------------------------------------------------------------
(* find_recipe_links *)

recipe_patterns ==
    << <<"/","r","e","c","i","p","e","/">>,
       <<"/","r","e","c","i","p","e","s","/">>,
       <<"r","e","c","i","p","e","-">>,
       <<"r","e","c","i","p","e","s","-">>,
       <<"c","o","o","k","i","n","g","/">>,
       <<"f","o","o","d","/">> >>

HttpPrefix == <<"h","t","t","p",":","/","/">>
HttpsPrefix == <<"h","t","t","p","s",":","/","/">>

\* index of the first "/" of s after position i, or Len(s) + 1
RECURSIVE SlashAfter(_, _)
SlashAfter(s, i) ==
    IF i >= Len(s) THEN Len(s) + 1
    ELSE IF s[i + 1] = "/" THEN i + 1
    ELSE SlashAfter(s, i + 1)

\* index of the last "/" of s at or before position i, or 0
RECURSIVE SlashBefore(_, _)
SlashBefore(s, i) ==
    IF i = 0 THEN 0
    ELSE IF s[i] = "/" THEN i
    ELSE SlashBefore(s, i - 1)

SchemeLen(u) ==
    IF StartsWith(u, HttpsPrefix) THEN Len(HttpsPrefix)
    ELSE IF StartsWith(u, HttpPrefix) THEN Len(HttpPrefix)
    ELSE 0

\* scheme://authority of an absolute http(s) URL
Origin(u) == SubSeq(u, 1, SlashAfter(u, SchemeLen(u)) - 1)

\* the path of an absolute http(s) URL ("" when it has none)
PathOf(u) == Drop(u, Len(Origin(u)))

\* requests.compat.urljoin(base, ref), for an absolute http(s) base and a reference
\* that is empty, an absolute http(s) URL, an absolute path or a relative path
\* without dot segments, query or fragment
urljoin(base, ref) ==
    IF ref = <<>> THEN base
    ELSE IF SchemeLen(ref) > 0 THEN ref
    ELSE IF Head(ref) = "/" THEN Origin(base) \o ref
    ELSE LET path == PathOf(base)
             dir == SubSeq(path, 1, SlashBefore(path, Len(path)))
         IN  Origin(base) \o (IF dir = <<>> THEN <<"/">> ELSE dir) \o ref

\* lines 46-47: relative URLs are made absolute
AbsoluteHref(u, href) ==
    IF StartsWith(href, HttpPrefix) \/ StartsWith(href, HttpsPrefix)
    THEN href
    ELSE urljoin(u, href)

\* line 50, first conjunct
MatchesPattern(href) ==
    \E k \in 1..Len(recipe_patterns) : Contains(Lower(href), recipe_patterns[k])

\* KeepsLink without the test of line 51
KeepsLinkAnyDomain(href, base, visited) ==
    /\ MatchesPattern(href)
    /\ href \notin visited

\* KeepsLink without the test of line 52
KeepsLinkVisitedToo(href, base, visited) ==
    /\ MatchesPattern(href)
    /\ Contains(href, base)

\* lines 50-52: the condition under which a link is added
KeepsLink(href, base, visited) ==
    /\ MatchesPattern(href)
    /\ Contains(href, base)
    /\ href \notin visited

\* line 54: the condition under which the scan stops after an add
ScanStops(links, maxl) == Cardinality(links) >= maxl

\* lines 42-55: the loop over the anchors, links being recipe_links so far
RECURSIVE ScanAnchors(_, _, _, _, _, _)
ScanAnchors(anchors, u, base, visited, maxl, links) ==
    IF anchors = <<>> THEN links
    ELSE LET href == AbsoluteHref(u, Head(anchors))
         IN  IF KeepsLink(href, base, visited)
             THEN LET added == links \cup {href}
                  IN  IF ScanStops(added, maxl) THEN added
                      ELSE ScanAnchors(Tail(anchors), u, base, visited, maxl, added)
             ELSE ScanAnchors(Tail(anchors), u, base, visited, maxl, links)

\* lines 28-60: the value find_recipe_links returns; ok is FALSE when requests.get
\* or raise_for_status raised a RequestException
find_recipe_links(u, maxl, anchors, ok, base, visited) ==
    IF ok THEN ScanAnchors(anchors, u, base, visited, maxl, {}) ELSE {}

----------------------------------------------------------------------------
(* generate_instruction_pairs *)

\* line 113: the number of characters of the text a request carries
TruncLimit == 2000

InputToken == <<"I","N","P","U","T",":">>
OutputToken == <<"O","U","T","P","U","T",":">>
InstructionToken == <<"I","N","S","T","R","U","C","T","I","O","N",":">>

\* EmbeddedText without the slice
WholeText(text) == text

\* line 113: text_content[:2000], the part of the text embedded in the user message
EmbeddedText(text) == Slice(text, 0, TruncLimit)

\* TwoParts taking any reply that holds an 'INPUT:'
AtLeastTwoParts(parts) == Len(parts) >= 2

\* line 129: the test on the number of parts around 'INPUT:'
TwoParts(parts) == Len(parts) = 2

\* lines 126-141: the records one reply adds to instruction_pairs (none or one)
ParseReply(generated_content) ==
    LET parts == Split(generated_content, InputToken)
    IN  IF TwoParts(parts)
        THEN LET instruction == Strip(Remove(parts[1], InstructionToken))
                 input_output == Split(parts[2], OutputToken)
             IN  IF Len(input_output) = 2
                 THEN << [instruction |-> instruction,
                          input |-> Strip(input_output[1]),
                          output |-> Strip(input_output[2])] >>
                 ELSE <<>>
        ELSE <<>>

\* lines 107-144: what one pass of the loop body adds, the request having ended
\* in outcome (a reply, or ServiceError when the call raised)
AttemptRecords(outcome) == IF outcome = ServiceError THEN <<>> ELSE ParseReply(outcome)

----------------------------------------------------------------------------
(* save_to_jsonl *)

\* json.dumps of one character inside a string
JsonChar(c) ==
    CASE c = "\"" -> <<"\\", "\"">>
      [] c = "\\" -> <<"\\", "\\">>
      [] c = "\n" -> <<"\\", "n">>
      [] c = "\t" -> <<"\\", "t">>
      [] c = "\r" -> <<"\\", "r">>
      [] OTHER -> <<c>>

RECURSIVE JsonEscape(_)
JsonEscape(s) == IF s = <<>> THEN <<>> ELSE JsonChar(Head(s)) \o JsonEscape(Tail(s))

\* json.dumps(pair) for a record of three strings
JsonDumps(pair) ==
    <<"{","\"","i","n","s","t","r","u","c","t","i","o","n","\"",":"," ","\"">>
    \o JsonEscape(pair.instruction)
    \o <<"\"",","," ","\"","i","n","p","u","t","\"",":"," ","\"">>
    \o JsonEscape(pair.input)
    \o <<"\"",","," ","\"","o","u","t","p","u","t","\"",":"," ","\"">>
    \o JsonEscape(pair.output)
    \o <<"\"","}">>

\* lines 166-167: what the loop over the pairs writes
RECURSIVE WrittenLines(_)
WrittenLines(pairs) ==
    IF pairs = <<>> THEN <<>>
    ELSE JsonDumps(Head(pairs)) \o <<"\n">> \o WrittenLines(Tail(pairs))

\* lines 161-162: sum(1 for _ in f), the lines Python reads from a text without "\r":
\* each "\n" ends a line, and characters after the last "\n" are one more line
CountLines(content) ==
    Cardinality({i \in DOMAIN content : content[i] = "\n"})
    + (IF content # <<>> /\ content[Len(content)] # "\n" THEN 1 ELSE 0)

\* AppendedFile with the file opened in mode 'w'
OverwrittenFile(content, pairs) == WrittenLines(pairs)

\* lines 165-167: the file after open(filename, 'a') and the writes
AppendedFile(content, pairs) == content \o WrittenLines(pairs)

----------------------------------------------------------------------------
(* Inputs *)

Href1 == <<"/","r","e","c","i","p","e","/","a">>
Href2 == <<"/","a","b","o","u","t">>
Href3 == <<"/","r","e","c","i","p","e","s","/","b">>
Href4 == <<"h","t","t","p",":","/","/","e",".","c","o","/","R","e","c","i","p","e","/","c">>
Href5 == <<"h","t","t","p",":","/","/","o",".","c","o","/","r","e","c","i","p","e","/","d">>
Href6 == <<"f","o","o","d","/","e">>
Href7 == <<"h","t","t","p","s",":","/","/","e",".","c","o","/","c","o","o","k","i","n","g","/","f">>

SampleHrefs == {Href1, Href2, Href3, Href4, Href5, Href6, Href7, <<>>}
PipelineHrefs == {Href1, Href2, Href3}

SiteUrl == <<"h","t","t","p",":","/","/","e",".","c","o">>
PageUrls == {SiteUrl, SiteUrl \o <<"/","r","e","c","i","p","e","s","/","x">>}

GoodReply ==
    <<"I","N","S","T","R","U","C","T","I","O","N",":"," ","a","\n",
      "I","N","P","U","T",":"," ","b"," ","\n",
      "O","U","T","P","U","T",":"," ","c","\n">>
BadReply == <<"O","U","T","P","U","T",":"," ","c"," ","I","N","P","U","T",":"," ","b">>
SampleOutcomes == {GoodReply, BadReply, ServiceError}

Fragments ==
    << InstructionToken, InputToken, OutputToken, <<" ">>, <<"a">>,
       <<"I","N">>, <<"P","U","T",":">> >>

\* the replies composed of at most MaxFrags fragments
ComposedReplies ==
    {Concat([i \in DOMAIN fs |-> Fragments[fs[i]]]) : fs \in SeqsUpTo(1..Len(Fragments), MaxFrags)}

SampleTexts == {<<>>, <<"t">>}

\* the text of length n whose k-th, 2k-th, ... characters are "b" and the rest "a"
PeriodicText(n, k) == [i \in 1..n |-> IF i % k = 0 THEN "b" ELSE "a"]

LongTexts ==
    {PeriodicText(n, k) : n \in (0..2) \cup ((TruncLimit - 2)..(TruncLimit + MaxExtra)),
                          k \in 2..(MaxPeriods + 1)}

FieldTexts == {<<>>, <<"a">>, <<"a", "\n", "\"">>}
SampleRecords ==
    {[instruction |-> <<"i">>, input |-> f, output |-> <<"o">>] : f \in FieldTexts}

FileChars == {"x", "\n"}

Pages == SeqsUpTo(SampleHrefs, MaxAnchors)
PipelinePages == SeqsUpTo(PipelineHrefs, MaxPageLen)

\* the visited sets given to find_recipe_links alone
VisitedSets ==
    {v \in SUBSET {AbsoluteHref(SiteUrl, h) : h \in {Href1, Href3, Href4}} :
        Cardinality(v) <= MaxVisited}

InitialFiles == {<<>>, <<"x", "\n">>}

----------------------------------------------------------------------------
(* Actions *)

\* line 179, with lines 20-60: process_multiple_recipes is called and
\* find_recipe_links(self.base_url, max_recipes) returns
ProcessMultipleRecipes ==
    /\ pc = "idle"
    /\ runs < MaxRuns
    /\ \E n \in 0..MaxPairs, m \in 0..MaxLinks, anchors \in PipelinePages, ok \in BOOLEAN :
          /\ num_pairs' = n
          /\ max_links' = m
          /\ page' = anchors
          /\ fetch_ok' = ok
          /\ recipe_links' = find_recipe_links(base_url, m, anchors, ok, base_url, visited_urls)
    /\ page_url' = base_url
    /\ pending' = {}
    /\ processed' = <<>>
    /\ steps' = <<>>
    /\ runs' = runs + 1
    /\ pc' = "discovered"
    /\ UNCHANGED <<base_url, visited_urls, url, text_content, prompt, replies,
                   instruction_pairs, file, existing_count, reported>>

\* line 181: the for loop starts on the returned list; the arguments and locals of
\* find_recipe_links are gone
EnterLoop ==
    /\ pc = "discovered"
    /\ pending' = recipe_links
    /\ page' = <<>>
    /\ page_url' = None
    /\ fetch_ok' = TRUE
    /\ max_links' = 0
    /\ pc' = "for"
    /\ UNCHANGED <<base_url, visited_urls, url, recipe_links, processed, steps, runs,
                   num_pairs, text_content, prompt, replies, instruction_pairs, file,
                   existing_count, reported>>

\* lines 181-183: the loop takes the next link of the list and sets self.url
SetCurrentUrl ==
    /\ pc = "for"
    /\ \E recipe_url \in pending :
          /\ url' = recipe_url
          /\ pending' = pending \ {recipe_url}
    /\ steps' = <<"set_url">>
    /\ pc' = "mark"
    /\ UNCHANGED <<base_url, visited_urls, page_url, page, fetch_ok, max_links, recipe_links,
                   processed, runs, num_pairs, text_content, prompt, replies,
                   instruction_pairs, file, existing_count, reported>>

\* line 184
MarkVisited ==
    /\ pc = "mark"
    /\ visited_urls' = visited_urls \cup {url}
    /\ steps' = Append(steps, "mark_visited")
    /\ pc' = "scrape"
    /\ UNCHANGED <<base_url, url, page_url, page, fetch_ok, max_links, recipe_links, pending,
                   processed, runs, num_pairs, text_content, prompt, replies,
                   instruction_pairs, file, existing_count, reported>>

\* lines 187-189 with 62-83: scrape_website returns the text or None, and the
\* loop goes on to generate_instruction_pairs only for a text that is not empty
ScrapeWebsite ==
    /\ pc = "scrape"
    /\ \E t \in SampleTexts \cup {None} : text_content' = t
    /\ steps' = Append(steps, "extract")
    /\ replies' = <<>>
    /\ instruction_pairs' = <<>>
    /\ pc' = IF text_content' # None /\ text_content' # <<>> THEN "generate" ELSE "sleep"
    /\ UNCHANGED <<base_url, visited_urls, url, page_url, page, fetch_ok, max_links,
                   recipe_links, pending, processed, runs, num_pairs, prompt, file,
                   existing_count, reported>>

\* GenerateAttempt with the try around the loop instead of inside it: a request
\* that raises ends the loop
GenerateAttemptAborting(Outcomes) ==
    /\ pc = "generate"
    /\ Len(replies) < num_pairs
    /\ prompt' = EmbeddedText(text_content)
    /\ \E outcome \in Outcomes :
          /\ replies' = Append(replies, outcome)
          /\ instruction_pairs' = instruction_pairs \o AttemptRecords(outcome)
          /\ pc' = IF outcome = ServiceError THEN "save" ELSE pc
    /\ UNCHANGED <<base_url, visited_urls, url, page_url, page, fetch_ok, max_links,
                   recipe_links, pending, processed, steps, runs, num_pairs, text_content,
                   file, existing_count, reported>>

\* lines 106-144: one pass of the loop of generate_instruction_pairs, the request
\* ending in one of the given outcomes
GenerateAttempt(Outcomes) ==
    /\ pc = "generate"
    /\ Len(replies) < num_pairs
    /\ prompt' = EmbeddedText(text_content)
    /\ \E outcome \in Outcomes :
          /\ replies' = Append(replies, outcome)
          /\ instruction_pairs' = instruction_pairs \o AttemptRecords(outcome)
    /\ UNCHANGED <<pc, base_url, visited_urls, url, page_url, page, fetch_ok, max_links,
                   recipe_links, pending, processed, steps, runs, num_pairs, text_content,
                   file, existing_count, reported>>

GenerateSample == GenerateAttempt(SampleOutcomes)
GenerateComposed == GenerateAttempt(ComposedReplies \cup {ServiceError})

\* line 146: the loop is over and the list is returned
GenerateReturn ==
    /\ pc = "generate"
    /\ Len(replies) >= num_pairs
    /\ steps' = Append(steps, "generate")
    /\ pc' = "save"
    /\ UNCHANGED <<base_url, visited_urls, url, page_url, page, fetch_ok, max_links,
                   recipe_links, pending, processed, runs, num_pairs, text_content, prompt,
                   replies, instruction_pairs, file, existing_count, reported>>

\* lines 148-169: save_to_jsonl runs to its end
SaveToJsonl ==
    /\ pc = "save"
    /\ existing_count' = CountLines(file)
    /\ file' = AppendedFile(file, instruction_pairs)
    /\ reported' = existing_count' + Len(instruction_pairs)
    /\ steps' = Append(steps, "append")
    /\ pc' = "sleep"
    /\ UNCHANGED <<base_url, visited_urls, url, page_url, page, fetch_ok, max_links,
                   recipe_links, pending, processed, runs, num_pairs, text_content, prompt,
                   replies, instruction_pairs>>

\* lines 156, 161, 165: os.makedirs or open raises OSError; nothing catches it in
\* save_to_jsonl (148-169) or in process_multiple_recipes (171-193)
SaveToJsonlRaises ==
    /\ pc = "save"
    /\ pc' = "raised"
    /\ UNCHANGED <<base_url, visited_urls, url, page_url, page, fetch_ok, max_links,
                   recipe_links, pending, processed, steps, runs, num_pairs, text_content,
                   prompt, replies, instruction_pairs, file, existing_count, reported>>

\* line 193: the delay that ends the iteration
Sleep ==
    /\ pc = "sleep"
    /\ steps' = Append(steps, "sleep")
    /\ processed' = Append(processed, url)
    /\ text_content' = None
    /\ replies' = <<>>
    /\ instruction_pairs' = <<>>
    /\ pc' = "for"
    /\ UNCHANGED <<base_url, visited_urls, url, page_url, page, fetch_ok, max_links,
                   recipe_links, pending, runs, num_pairs, prompt, file, existing_count,
                   reported>>

\* line 181: the list is exhausted and process_multiple_recipes returns
LoopEnds ==
    /\ pc = "for"
    /\ pending = {}
    /\ pc' = "done"
    /\ UNCHANGED <<base_url, visited_urls, url, page_url, page, fetch_ok, max_links,
                   recipe_links, pending, processed, steps, runs, num_pairs, text_content,
                   prompt, replies, instruction_pairs, file, existing_count, reported>>

\* line 193, end of the body: process_multiple_recipes returns to its caller; its
\* locals and those of the calls it made are gone
Return ==
    /\ pc = "done"
    /\ recipe_links' = {}
    /\ processed' = <<>>
    /\ steps' = <<>>
    /\ num_pairs' = 0
    /\ prompt' = <<>>
    /\ existing_count' = 0
    /\ reported' = 0
    /\ pc' = "idle"
    /\ UNCHANGED <<base_url, visited_urls, url, page_url, page, fetch_ok, max_links, pending,
                   runs, text_content, replies, instruction_pairs, file>>

\* lines 20-60: find_recipe_links called on its own
FindRecipeLinks ==
    /\ pc = "call"
    /\ recipe_links' = find_recipe_links(page_url, max_links, page, fetch_ok, base_url,
                                         visited_urls)
    /\ pc' = "returned"
    /\ UNCHANGED <<base_url, visited_urls, url, page_url, page, fetch_ok, max_links, pending,
                   processed, steps, runs, num_pairs, text_content, prompt, replies,
                   instruction_pairs, file, existing_count, reported>>

----------------------------------------------------------------------------
(* Specifications *)

\* lines 9-18: the object after __init__, the dataset file being whatever earlier
\* runs left
Init ==
    /\ pc = "idle"
    /\ base_url = SiteUrl
    /\ visited_urls = {}
    /\ url = None
    /\ page_url = None
    /\ page = <<>>
    /\ fetch_ok = TRUE
    /\ max_links = 0
    /\ recipe_links = {}
    /\ pending = {}
    /\ processed = <<>>
    /\ steps = <<>>
    /\ runs = 0
    /\ num_pairs = 0
    /\ text_content = None
    /\ prompt = <<>>
    /\ replies = <<>>
    /\ instruction_pairs = <<>>
    /\ file \in InitialFiles
    /\ existing_count = 0
    /\ reported = 0

Next ==
    \/ ProcessMultipleRecipes
    \/ EnterLoop
    \/ SetCurrentUrl
    \/ MarkVisited
    \/ ScrapeWebsite
    \/ GenerateSample
    \/ GenerateReturn
    \/ SaveToJsonl
    \/ SaveToJsonlRaises
    \/ Sleep
    \/ LoopEnds
    \/ Return

\* process_multiple_recipes called up to MaxRuns times on one object
Spec == Init /\ [][Next]_vars

\* find_recipe_links(url, max_links) called on an object with some visited set, for
\* every page, visited set and maximum of the bounds
InitLinks ==
    /\ pc = "call"
    /\ base_url = SiteUrl
    /\ visited_urls \in VisitedSets
    /\ url = None
    /\ page_url \in PageUrls
    /\ page \in Pages
    /\ fetch_ok \in BOOLEAN
    /\ max_links \in 0..MaxLinks
    /\ recipe_links = {}
    /\ pending = {}
    /\ processed = <<>>
    /\ steps = <<>>
    /\ runs = 0
    /\ num_pairs = 0
    /\ text_content = None
    /\ prompt = <<>>
    /\ replies = <<>>
    /\ instruction_pairs = <<>>
    /\ file = <<>>
    /\ existing_count = 0
    /\ reported = 0

NextLinks == FindRecipeLinks

SpecLinks == InitLinks /\ [][NextLinks]_vars

\* generate_instruction_pairs(text, 1), for every reply composed of the fragments
InitParse ==
    /\ pc = "generate"
    /\ base_url = SiteUrl
    /\ visited_urls = {}
    /\ url = None
    /\ page_url = None
    /\ page = <<>>
    /\ fetch_ok = TRUE
    /\ max_links = 0
    /\ recipe_links = {}
    /\ pending = {}
    /\ processed = <<>>
    /\ steps = <<>>
    /\ runs = 0
    /\ num_pairs = 1
    /\ text_content \in SampleTexts
    /\ prompt = <<>>
    /\ replies = <<>>
    /\ instruction_pairs = <<>>
    /\ file = <<>>
    /\ existing_count = 0
    /\ reported = 0

NextParse == GenerateComposed

SpecParse == InitParse /\ [][NextParse]_vars

\* generate_instruction_pairs(text, MaxPairs), for texts shorter than, as long as
\* and longer than the truncation limit
InitPrompt ==
    /\ pc = "generate"
    /\ base_url = SiteUrl
    /\ visited_urls = {}
    /\ url = None
    /\ page_url = None
    /\ page = <<>>
    /\ fetch_ok = TRUE
    /\ max_links = 0
    /\ recipe_links = {}
    /\ pending = {}
    /\ processed = <<>>
    /\ steps = <<>>
    /\ runs = 0
    /\ num_pairs = MaxPairs
    /\ text_content \in LongTexts
    /\ prompt = <<>>
    /\ replies = <<>>
    /\ instruction_pairs = <<>>
    /\ file = <<>>
    /\ existing_count = 0
    /\ reported = 0

NextPrompt == GenerateSample

SpecPrompt == InitPrompt /\ [][NextPrompt]_vars

\* save_to_jsonl(instruction_pairs, filename), for every file content and every list
\* of records of the bounds
InitSave ==
    /\ pc = "save"
    /\ base_url = SiteUrl
    /\ visited_urls = {}
    /\ url = None
    /\ page_url = None
    /\ page = <<>>
    /\ fetch_ok = TRUE
    /\ max_links = 0
    /\ recipe_links = {}
    /\ pending = {}
    /\ processed = <<>>
    /\ steps = <<>>
    /\ runs = 0
    /\ num_pairs = 0
    /\ text_content = None
    /\ prompt = <<>>
    /\ replies = <<>>
    /\ instruction_pairs \in SeqsUpTo(SampleRecords, MaxRecords)
    /\ file \in SeqsUpTo(FileChars, MaxFileLen)
    /\ existing_count = 0
    /\ reported = 0

NextSave ==
    \/ SaveToJsonl
    \/ SaveToJsonlRaises

SpecSave == InitSave /\ [][NextSave]_vars

----------------------------------------------------------------------------
(* The claims *)

IsPrefix(s, t) == Len(s) <= Len(t) /\ SubSeq(t, 1, Len(s)) = s

\* the positions of s at which tok stands
Occurrences(s, tok) == {i \in 1..(Len(s) - Len(tok) + 1) : SubSeq(s, i, i + Len(tok) - 1) = tok}

Trimmed(s) == s = <<>> \/ (s[1] \notin Whitespace /\ s[Len(s)] \notin Whitespace)

TrimmedRecord(r) == Trimmed(r.instruction) /\ Trimmed(r.input) /\ Trimmed(r.output)

LastReply == replies[Len(replies)]

\* C1: find_recipe_links(url, max_links) returns at most max_links links, for every
\* page, every visited set and every max_links >= 0, 0 included.
C1_AtMostMaxLinks ==
    pc = "returned" => Cardinality(recipe_links) <= max_links

\* C2, as claimed: a reply with no or with several 'INPUT:' yields no record, and a
\* reply with exactly one 'INPUT:' and exactly one 'OUTPUT:', wherever they stand,
\* yields exactly one record, its three fields trimmed.
C2_OneRecordWhereverTokensStand ==
    (replies # <<>> /\ LastReply # ServiceError) =>
        /\ Cardinality(Occurrences(LastReply, InputToken)) # 1 => instruction_pairs = <<>>
        /\ (/\ Cardinality(Occurrences(LastReply, InputToken)) = 1
            /\ Cardinality(Occurrences(LastReply, OutputToken)) = 1)
           => (Len(instruction_pairs) = 1 /\ TrimmedRecord(instruction_pairs[1]))

\* C2, amended: a reply with no or with several 'INPUT:' yields no record; a reply
\* with exactly one 'INPUT:' and exactly one 'OUTPUT:' yields exactly one record,
\* its three fields trimmed, when the 'OUTPUT:' stands after the 'INPUT:', and no
\* record when it stands before.
C2_OneRecordWhenOutputFollowsInput ==
    (replies # <<>> /\ LastReply # ServiceError) =>
        LET ins == Occurrences(LastReply, InputToken)
            outs == Occurrences(LastReply, OutputToken)
        IN  /\ Cardinality(ins) # 1 => instruction_pairs = <<>>
            /\ (Cardinality(ins) = 1 /\ Cardinality(outs) = 1) =>
                  IF \E i \in ins, o \in outs : i < o
                  THEN Len(instruction_pairs) = 1 /\ TrimmedRecord(instruction_pairs[1])
                  ELSE instruction_pairs = <<>>

\* a reply 'a INPUT:...OUTPUT:...' was parsed into one record whose instruction
\* lost its trailing space
C2_Witness ==
    /\ replies # <<>>
    /\ LastReply # ServiceError
    /\ Len(instruction_pairs) = 1
    /\ instruction_pairs[1].instruction = <<"a">>
    /\ Contains(LastReply, <<"a", " ">> \o InputToken)

\* C3: when save_to_jsonl counted M lines and was given K records, the file holds
\* M+K lines once it has returned, and the total it reports is M+K.
C3_LinesAfterAppend ==
    pc = "sleep" =>
        /\ CountLines(file) = existing_count + Len(instruction_pairs)
        /\ reported = existing_count + Len(instruction_pairs)

\* C4: a URL in the visited set is never returned by a later find_recipe_links: the
\* visited set only grows, and a call returns nothing that was in it.
C4_VisitedNeverReturned ==
    [][/\ visited_urls \subseteq visited_urls'
       /\ (pc = "idle" /\ pc' = "discovered") => recipe_links' \cap visited_urls = {}]_vars

\* a later run fetched a page with an anchor to a visited URL and returned other links
C4_Witness ==
    /\ pc = "discovered"
    /\ runs >= 2
    /\ fetch_ok
    /\ \E i \in DOMAIN page : AbsoluteHref(page_url, page[i]) \in visited_urls
    /\ recipe_links # {}

\* C5: a failure in a per-link stage (extraction, generation, appending) does not
\* halt the loop: no exception leaves process_multiple_recipes, and when the run is
\* over every discovered link has been processed.
C5_NoFailureHaltsTheLoop ==
    /\ pc # "raised"
    /\ pc = "done" => Range(processed) = recipe_links

\* C6: generate_instruction_pairs(text, N) sends exactly N requests and returns at
\* most N records: the records of the replies that parse, in order, whatever
\* failed before them.
C6_EveryAttemptIsMade ==
    LET recorded == Concat([i \in DOMAIN replies |-> AttemptRecords(replies[i])])
    IN  /\ pc = "generate" => (Len(replies) <= num_pairs /\ instruction_pairs = recorded)
        /\ pc = "save" => /\ Len(replies) = num_pairs
                          /\ Len(instruction_pairs) <= num_pairs
                          /\ instruction_pairs = recorded

\* the first request raised and the reply to the second one was recorded
C6_Witness ==
    /\ pc = "save"
    /\ Len(replies) >= 2
    /\ replies[1] = ServiceError
    /\ replies[2] = GoodReply
    /\ Len(instruction_pairs) >= 1

\* C7: the dataset file is append-only: every step leaves the earlier content as a
\* prefix, and a save adds the line of every record it was given, those already in
\* the file included.
C7_AppendOnly ==
    [][/\ IsPrefix(file, file')
       /\ (pc = "save" /\ pc' = "sleep") =>
             file' = file \o Concat([i \in DOMAIN instruction_pairs |->
                                        JsonDumps(instruction_pairs[i]) \o <<"\n">>])]_vars

\* the second run has appended, for its first link, the record the first run stored
C7_Witness ==
    /\ pc = "sleep"
    /\ runs = 2
    /\ processed = <<>>
    /\ Len(instruction_pairs) = 1
    /\ \E f \in InitialFiles :
          file = f \o JsonDumps(instruction_pairs[1]) \o <<"\n">>
                   \o JsonDumps(instruction_pairs[1]) \o <<"\n">>

\* C8: every returned URL is the resolution against the page URL of the href of an
\* anchor of the page, matches a recipe pattern once lowercased, contains base_url
\* and was not visited; a failed fetch returns nothing.
C8_ReturnedLinksAreFiltered ==
    pc = "returned" =>
        /\ \A l \in recipe_links :
              /\ \E i \in DOMAIN page : l = urljoin(page_url, page[i])
              /\ \E k \in DOMAIN recipe_patterns : Contains(Lower(l), recipe_patterns[k])
              /\ Contains(l, base_url)
              /\ l \notin visited_urls
        /\ ~fetch_ok => recipe_links = {}

\* a relative href was resolved and returned while another anchor, matching a
\* pattern, was left out
C8_Witness ==
    /\ pc = "returned"
    /\ \E i \in DOMAIN page :
          /\ SchemeLen(page[i]) = 0
          /\ page[i] # <<>>
          /\ urljoin(page_url, page[i]) \in recipe_links
    /\ \E i \in DOMAIN page :
          /\ MatchesPattern(AbsoluteHref(page_url, page[i]))
          /\ AbsoluteHref(page_url, page[i]) \notin recipe_links

\* C9: for a text longer than 2000 characters, the text embedded in each request is
\* its first 2000 characters, in order and unchanged.
C9_PromptIsFirst2000 ==
    (replies # <<>> /\ Len(text_content) > TruncLimit) =>
        /\ Len(prompt) = TruncLimit
        /\ \A i \in 1..TruncLimit : prompt[i] = text_content[i]

\* a request was sent for a text of more than 2000 characters
C9_Witness ==
    /\ Len(replies) >= 2
    /\ Len(text_content) > TruncLimit + 1
    /\ Len(prompt) = TruncLimit

\* the steps of a link with a text, and of a link without
StepsWithText == <<"set_url", "mark_visited", "extract", "generate", "append", "sleep">>
StepsWithoutText == <<"set_url", "mark_visited", "extract", "sleep">>

\* C10, the order of a run apart from its end: a link is visited before its page
\* is fetched, each link goes once through the steps in order, generating and
\* appending exactly when a text is present, and the sleep ends every iteration.
RunOrder ==
    /\ pc = "scrape" => url \in visited_urls
    /\ pc = "sleep" =>
          steps = (IF text_content # None /\ text_content # <<>>
                   THEN SubSeq(StepsWithText, 1, 5) ELSE SubSeq(StepsWithoutText, 1, 3))
    /\ (pc \in {"for", "done"} /\ processed # <<>>) => steps \in {StepsWithText, StepsWithoutText}
    /\ \A i, j \in DOMAIN processed : processed[i] = processed[j] => i = j
    /\ Range(processed) \subseteq recipe_links

\* C10: discovery happens once, each discovered link then goes once through the
\* steps in order, and the run ends in Done with every discovered link processed.
C10_RunReachesDone ==
    /\ RunOrder
    /\ pc \in {"done", "raised"} => (pc = "done" /\ Range(processed) = recipe_links)

====
